---- MODULE Spec2Model ----
(***************************************************************************)
(* Combinatorial rank/unrank codec of permutation_compression:             *)
(*   src/src/binomial_cache.rs  BinomialCache (table + LRU cache, mutex)   *)
(*   src/src/streaming.rs       BitRanker / BitUnranker                    *)
(*   src/src/utils.rs           batch get_permutation_index /              *)
(*                              get_nth_permutation                        *)
(*   src/src/lib.rs             stream_rank / stream_unrank                *)
(*                                                                         *)
(* Number representation.  u64 counters are TLA+ integers.  In the         *)
(* specifications Spec, SpecDec, SpecCodec, SpecProvider and SpecThreads   *)
(* every counter stays far below 2^64, so no u64 operation wraps.  SpecWord*)
(* and SpecCodecWord keep the word width (WordBits bits) and the build's   *)
(* overflow behaviour, for counts next to the largest word and for calls   *)
(* of get with k > n.                                                      *)
(* BigUint values that hold binomial coefficients or ranks                 *)
(* are little-endian sequences of limbs in radix BASE without leading zero *)
(* limbs (zero is the empty sequence), because a binomial coefficient such *)
(* as C(50,25) does not fit the integers TLC computes with.  BigUint       *)
(* counts of utils.rs (ones, zeros, the loop counters) stay small and are  *)
(* written as TLA+ integers.                                               *)
(***************************************************************************)
EXTENDS Integers, Sequences, FiniteSets, TLC

(***************************************************************************)
(* Bounds of the model.                                                    *)
(***************************************************************************)
MaxOnes == 3          \* declared ones range over 0..MaxOnes
MaxZeros == 2         \* declared zeros range over 0..MaxZeros
Oversupply == 1       \* bits submitted beyond ones + zeros
MaxChunk == 2         \* longest chunk handed to process_chunk in one call
ExtraIndex == 2       \* ranks beyond C(ones+zeros, ones) given to the decoder
NumThreads == 2       \* threads calling BinomialCache::get concurrently
CacheCapacity == 2    \* LruCache capacity; 1024 at binomial_cache.rs:25,
                      \* scaled down so that eviction is reachable
KSpan == 1            \* get is asked for k within KSpan of 0, of n \div 2, of n
WordBits == 9         \* width of a machine word where overflow is modelled;
                      \* 64 (u64) in the source, scaled down so that counts next
                      \* to the largest word can be enumerated; more than
                      \* PRECOMPUTE_LIMIT must fit

(***************************************************************************)
(* BigUint: exact unbounded naturals (num_bigint), as limb sequences.      *)
(***************************************************************************)
BASE == 1000000

Zero == <<>>

One == <<1>>

RECURSIVE BigFromU64(_)
BigFromU64(x) ==
    IF x = 0 THEN <<>> ELSE <<x % BASE>> \o BigFromU64(x \div BASE)

RECURSIVE AddCarry(_, _, _, _, _)
AddCarry(a, b, i, carry, acc) ==
    IF i > Len(a) /\ i > Len(b)
    THEN (IF carry = 0 THEN acc ELSE Append(acc, carry))
    ELSE LET s == (IF i > Len(a) THEN 0 ELSE a[i])
                  + (IF i > Len(b) THEN 0 ELSE b[i]) + carry
         IN AddCarry(a, b, i + 1, s \div BASE, Append(acc, s % BASE))

\* a + b
BigAdd(a, b) == AddCarry(a, b, 1, 0, <<>>)

RECURSIVE StripZeros(_)
StripZeros(a) ==
    IF Len(a) > 0 /\ a[Len(a)] = 0 THEN StripZeros(SubSeq(a, 1, Len(a) - 1))
    ELSE a

RECURSIVE SubBorrow(_, _, _, _, _)
SubBorrow(a, b, i, borrow, acc) ==
    IF i > Len(a) THEN StripZeros(acc)
    ELSE LET d == a[i] - (IF i > Len(b) THEN 0 ELSE b[i]) - borrow
         IN SubBorrow(a, b, i + 1, IF d < 0 THEN 1 ELSE 0,
                      Append(acc, IF d < 0 THEN d + BASE ELSE d))

RECURSIVE GtFrom(_, _, _)
GtFrom(a, b, i) ==
    IF i = 0 THEN FALSE
    ELSE IF a[i] # b[i] THEN a[i] > b[i]
    ELSE GtFrom(a, b, i - 1)

\* a >= b
BigGtOrEqual(a, b) ==
    IF Len(a) # Len(b) THEN Len(a) > Len(b) ELSE a = b \/ GtFrom(a, b, Len(a))

\* a > b
BigGt(a, b) ==
    IF Len(a) # Len(b) THEN Len(a) > Len(b) ELSE GtFrom(a, b, Len(a))

\* a variant that leaves a as it is
BigSubNothing(a, b) == a

\* a - b, defined for a >= b (BigUint subtraction panics otherwise)
BigSub(a, b) == SubBorrow(a, b, 1, 0, <<>>)

RECURSIVE MulCarry(_, _, _, _, _)
MulCarry(a, m, i, carry, acc) ==
    IF i > Len(a) THEN (IF carry = 0 THEN acc ELSE acc \o BigFromU64(carry))
    ELSE LET p == a[i] * m + carry
         IN MulCarry(a, m, i + 1, p \div BASE, Append(acc, p % BASE))

\* a * m for a u64 (or small BigUint) factor m
BigMulU64(a, m) == IF m = 0 THEN Zero ELSE MulCarry(a, m, 1, 0, <<>>)

RECURSIVE DivRemFrom(_, _, _, _, _)
DivRemFrom(a, d, i, rem, acc) ==
    IF i = 0 THEN [quot |-> StripZeros(acc), rem |-> rem]
    ELSE LET cur == rem * BASE + a[i]
         IN DivRemFrom(a, d, i - 1, cur % d, <<cur \div d>> \o acc)

\* floor(a / d) and a mod d for a u64 (or small BigUint) divisor d > 0
BigDivRemU64(a, d) == DivRemFrom(a, d, Len(a), 0, <<>>)

Min(a, b) == IF a <= b THEN a ELSE b

(***************************************************************************)
(* binomial_cache.rs: compute_binomial                                     *)
(***************************************************************************)
PRECOMPUTE_LIMIT == 256

\* for i in 1..=k { result = result * (n - k + i) / i }: st holds the loop's
\* state (result, i) and the remainders the divisions have left so far
RECURSIVE compute_binomial_loop(_, _, _)
compute_binomial_loop(st, n, k) ==
    IF st.i > k THEN st
    ELSE LET d == BigDivRemU64(BigMulU64(st.result, n - k + st.i), st.i)
         IN compute_binomial_loop(
                [result |-> d.quot, rems |-> st.rems \cup {d.rem}, i |-> st.i + 1],
                n, k)

compute_binomial_run(n, k) ==
    compute_binomial_loop([result |-> One, rems |-> {}, i |-> 1], n, Min(k, n - k))

compute_binomial(n, k) ==
    IF k = 0 \/ k = n THEN One ELSE compute_binomial_run(n, k).result

\* the remainders left by the divisions of compute_binomial(n, k)
compute_binomial_rems(n, k) ==
    IF k = 0 \/ k = n THEN {} ELSE compute_binomial_run(n, k).rems

(***************************************************************************)
(* binomial_cache.rs: BinomialCache.  The precomputed table holds          *)
(* Some(compute_binomial(n, k)) for 0 <= k <= n < PRECOMPUTE_LIMIT and     *)
(* None elsewhere.  The LruCache (crate lru) is the sequence of its        *)
(* entries, most recently used first.                                      *)
(***************************************************************************)
\* an absent value (Option::None, or an object not constructed yet)
None == [none |-> TRUE]

precomputed(n, k) == IF k <= n THEN compute_binomial(n, k) ELSE None

LruKeys(c) == {c[i].key : i \in 1..Len(c)}

LruIndex(c, key) == CHOOSE i \in 1..Len(c) : c[i].key = key

LruWithout(c, i) == SubSeq(c, 1, i - 1) \o SubSeq(c, i + 1, Len(c))

\* LruCache::get: the value of a present key; the entry becomes the most
\* recently used
LruPeekFirst(c, key) == c[1].val

LruPeek(c, key) == c[LruIndex(c, key)].val

LruPromote(c, key) ==
    LET i == LruIndex(c, key) IN <<c[i]>> \o LruWithout(c, i)

\* LruCache::put: a present key is updated and promoted; otherwise the
\* least recently used entry is evicted when the cache is full
LruPut(c, key, val) ==
    LET e == [key |-> key, val |-> val] IN
    IF key \in LruKeys(c) THEN <<e>> \o LruWithout(c, LruIndex(c, key))
    ELSE IF Len(c) >= CacheCapacity THEN <<e>> \o SubSeq(c, 1, CacheCapacity - 1)
    ELSE <<e>> \o c

\* let k = min(k, n - k)
reduced_k_off_by_one(n, k) == Min(k, n - k + 1)

reduced_k(n, k) == Min(k, n - k)

in_table(n, k) == n < PRECOMPUTE_LIMIT /\ k < PRECOMPUTE_LIMIT

\* BinomialCache::get run to completion on cache contents c: the value
\* returned and the cache contents left behind
get(c, n, k) ==
    LET kr == reduced_k(n, k) IN
    IF in_table(n, kr) THEN [ret |-> precomputed(n, kr), cache |-> c]
    ELSE IF <<n, kr>> \in LruKeys(c)
    THEN [ret |-> LruPeek(c, <<n, kr>>), cache |-> LruPromote(c, <<n, kr>>)]
    ELSE LET result == compute_binomial(n, kr)
         IN [ret |-> result, cache |-> LruPut(c, <<n, kr>>, result)]

(***************************************************************************)
(* utils.rs: binomial_coefficient                                          *)
(***************************************************************************)
\* while i < b { result *= a - i; result /= i + 1; i += 1 }
RECURSIVE binomial_coefficient_loop(_, _, _)
binomial_coefficient_loop(st, a, b) ==
    IF ~(st.i < b) THEN st
    ELSE binomial_coefficient_loop(
             [result |-> BigDivRemU64(BigMulU64(st.result, a - st.i), st.i + 1).quot,
              i |-> st.i + 1],
             a, b)

binomial_coefficient(a, b) ==
    IF b > a THEN Zero
    ELSE IF b = 0 \/ b = a THEN One
    ELSE binomial_coefficient_loop([result |-> One, i |-> 0], a, Min(b, a - b)).result

(***************************************************************************)
(* utils.rs: the batch encoder and decoder.  A bit is 1 (set) or 0         *)
(* (unset); a BitVec is a sequence of bits.                                *)
(***************************************************************************)
Bit == {0, 1}

Repeat(bit, count) == [j \in 1..count |-> bit]

\* for bit in bits { ... }: j is the position of the next bit
RECURSIVE get_permutation_index_loop(_, _, _)
get_permutation_index_loop(st, bits, j) ==
    IF j > Len(bits) THEN st
    ELSE IF st.ones_remaining = 0 \/ st.zeros_remaining = 0 THEN st
    ELSE IF bits[j] = 1
    THEN LET a == st.ones_remaining + st.zeros_remaining - 1
             b == st.ones_remaining
         IN get_permutation_index_loop(
                [index |-> BigAdd(st.index, binomial_coefficient(a, b)),
                 ones_remaining |-> st.ones_remaining - 1,
                 zeros_remaining |-> st.zeros_remaining],
                bits, j + 1)
    ELSE get_permutation_index_loop(
             [st EXCEPT !.zeros_remaining = @ - 1], bits, j + 1)

get_permutation_index(bits, ones, zeros) ==
    get_permutation_index_loop(
        [index |-> Zero, ones_remaining |-> ones, zeros_remaining |-> zeros],
        bits, 1).index

\* while i < total { ... }
RECURSIVE get_nth_permutation_loop(_, _)
get_nth_permutation_loop(st, total) ==
    IF ~(st.i < total) THEN st
    ELSE IF st.ones_remaining = 0
    THEN [st EXCEPT !.result = @ \o Repeat(0, st.zeros_remaining)]
    ELSE IF st.zeros_remaining = 0
    THEN [st EXCEPT !.result = @ \o Repeat(1, st.ones_remaining)]
    ELSE LET a == st.ones_remaining + st.zeros_remaining - 1
             b == st.ones_remaining
             c == binomial_coefficient(a, b)
         IN IF BigGt(c, st.index)
            THEN get_nth_permutation_loop(
                     [st EXCEPT !.result = Append(@, 0),
                                !.zeros_remaining = @ - 1,
                                !.i = @ + 1], total)
            ELSE get_nth_permutation_loop(
                     [st EXCEPT !.result = Append(@, 1),
                                !.index = BigSub(@, c),
                                !.ones_remaining = @ - 1,
                                !.i = @ + 1], total)

get_nth_permutation(index, ones, zeros) ==
    get_nth_permutation_loop(
        [index |-> index, result |-> <<>>, ones_remaining |-> ones,
         zeros_remaining |-> zeros, i |-> 0],
        ones + zeros).result

(***************************************************************************)
(* streaming.rs: BitRanker                                                 *)
(***************************************************************************)
BitRanker_new(total_ones, total_zeros) ==
    [total_ones |-> total_ones,
     total_zeros |-> total_zeros,
     remaining_ones |-> total_ones,
     remaining_zeros |-> total_zeros,
     current_index |-> Zero]

\* if self.remaining_ones == 0 || self.remaining_zeros == 0 { break; }
ranker_stop_first_only(r) == r.remaining_ones = 0

ranker_stop_never(r) == FALSE

ranker_stop_both(r) == r.remaining_ones = 0 /\ r.remaining_zeros = 0

ranker_stop(r) == r.remaining_ones = 0 \/ r.remaining_zeros = 0

\* let n = (self.remaining_ones + self.remaining_zeros - 1) as u64
ranker_n_plus_one(r) == r.remaining_ones + r.remaining_zeros

ranker_n(r) == r.remaining_ones + r.remaining_zeros - 1

\* let k = self.remaining_ones as u64
ranker_k_zeros(r) == r.remaining_zeros

ranker_k(r) == r.remaining_ones

\* for bit in chunk { ... }: st holds the ranker and the cache of BINOM_CACHE,
\* j is the position of the next bit of the chunk
RECURSIVE process_chunk_loop(_, _, _)
process_chunk_loop(st, chunk, j) ==
    IF j > Len(chunk) THEN st
    ELSE IF ranker_stop(st.ranker) THEN st
    ELSE IF chunk[j] = 1
    THEN LET n == ranker_n(st.ranker)
             k == ranker_k(st.ranker)
             g == get(st.cache, n, k)
         IN process_chunk_loop(
                [ranker |-> [st.ranker EXCEPT
                                !.current_index = BigAdd(@, g.ret),
                                !.remaining_ones = @ - 1],
                 cache |-> g.cache],
                chunk, j + 1)
    ELSE process_chunk_loop(
             [st EXCEPT !.ranker.remaining_zeros = @ - 1], chunk, j + 1)

\* a process_chunk that starts every chunk from the declared composition
process_chunk_restarting(r, c, chunk) ==
    process_chunk_loop(
        [ranker |-> [r EXCEPT !.remaining_ones = r.total_ones,
                              !.remaining_zeros = r.total_zeros],
         cache |-> c], chunk, 1)

process_chunk(r, c, chunk) ==
    process_chunk_loop([ranker |-> r, cache |-> c], chunk, 1)

finalize(r) == r.current_index

(***************************************************************************)
(* streaming.rs: BitUnranker                                               *)
(***************************************************************************)
BitUnranker_new(idx, total_ones, total_zeros) ==
    [remaining_index |-> idx,
     remaining_ones |-> total_ones,
     remaining_zeros |-> total_zeros]

saturating_sub_nothing(a, b) == a

saturating_sub(a, b) == IF a >= b THEN a - b ELSE 0

\* let n = (self.remaining_ones + self.remaining_zeros - 1) as u64
unranker_n_plus_one(u) == u.remaining_ones + u.remaining_zeros

unranker_n(u) == u.remaining_ones + u.remaining_zeros - 1

\* let k = self.remaining_ones as u64
unranker_k_zeros(u) == u.remaining_zeros

unranker_k(u) == u.remaining_ones

\* min(chunk_size as u64, self.remaining_ones + self.remaining_zeros) as usize
clamp_chunk_size_unclamped(chunk_size, u) == chunk_size

clamp_chunk_size_exclusive(chunk_size, u) ==
    Min(chunk_size - 1, u.remaining_ones + u.remaining_zeros)

clamp_chunk_size_short(chunk_size, u) ==
    Min(chunk_size, u.remaining_ones + u.remaining_zeros - 1)

clamp_chunk_size(chunk_size, u) ==
    Min(chunk_size, u.remaining_ones + u.remaining_zeros)

\* for i in 0..chunk_size { ... }: st holds the unranker, the cache of
\* BINOM_CACHE, the result buffer and the loop index i; result.set(i, bit)
\* writes position i + 1 of the 1-based sequence.  The state handed in is
\* bound once, as st, before the body reads it.
RECURSIVE next_chunk_loop(_, _)
next_chunk_loop(state, chunk_size) ==
    CHOOSE out \in {
            IF ~(st.i < chunk_size) THEN st
            ELSE IF st.unranker.remaining_ones = 0
            THEN next_chunk_loop(
                     [st EXCEPT !.result[st.i + 1] = 0,
                                !.unranker.remaining_zeros = saturating_sub(@, 1),
                                !.i = @ + 1], chunk_size)
            ELSE IF st.unranker.remaining_zeros = 0
            THEN next_chunk_loop(
                     [st EXCEPT !.result[st.i + 1] = 1,
                                !.unranker.remaining_ones = @ - 1,
                                !.i = @ + 1], chunk_size)
            ELSE LET n == unranker_n(st.unranker)
                     k == unranker_k(st.unranker)
                     g == get(st.cache, n, k)
                 IN IF BigGt(g.ret, st.unranker.remaining_index)
                    THEN next_chunk_loop(
                             [st EXCEPT !.result[st.i + 1] = 0,
                                        !.unranker.remaining_zeros = @ - 1,
                                        !.cache = g.cache,
                                        !.i = @ + 1], chunk_size)
                    ELSE next_chunk_loop(
                             [st EXCEPT !.result[st.i + 1] = 1,
                                        !.unranker.remaining_index = BigSub(@, g.ret),
                                        !.unranker.remaining_ones = @ - 1,
                                        !.cache = g.cache,
                                        !.i = @ + 1], chunk_size)
        : st \in {state}} : TRUE

\* the chunk returned, the unranker and the cache left behind; the result
\* buffer is bitvec![0; chunk_size] for the clamped chunk_size
next_chunk(u, c, chunk_size) ==
    LET clamped == clamp_chunk_size(chunk_size, u)
    IN next_chunk_loop(
           [unranker |-> u, cache |-> c, result |-> Repeat(0, clamped), i |-> 0],
           clamped)

(***************************************************************************)
(* lib.rs: stream_rank and stream_unrank                                   *)
(***************************************************************************)
RANK_CHUNK == 64

UNRANK_CHUNK == 64

\* for bit in bits { chunk.push(bit); if chunk.len() == 64 { ... } }
RECURSIVE stream_rank_loop(_, _, _)
stream_rank_loop(st, bits, j) ==
    IF j > Len(bits) THEN st
    ELSE LET chunk == Append(st.chunk, bits[j])
         IN IF Len(chunk) = RANK_CHUNK
            THEN LET p == process_chunk(st.ranker, st.cache, chunk)
                 IN stream_rank_loop(
                        [ranker |-> p.ranker, cache |-> p.cache, chunk |-> <<>>],
                        bits, j + 1)
            ELSE stream_rank_loop([st EXCEPT !.chunk = chunk], bits, j + 1)

\* the rank returned and the cache left behind
stream_rank(c, bits, total_ones, total_zeros) ==
    LET st == stream_rank_loop(
                  [ranker |-> BitRanker_new(total_ones, total_zeros),
                   cache |-> c, chunk |-> <<>>], bits, 1)
        fin == IF st.chunk # <<>>
               THEN process_chunk(st.ranker, st.cache, st.chunk)
               ELSE [ranker |-> st.ranker, cache |-> st.cache]
    IN [ret |-> finalize(fin.ranker), cache |-> fin.cache]

\* from_fn(|| { let chunk = unranker.next_chunk(64); if chunk.is_empty()
\* { None } else { Some(chunk) } }).flatten()
RECURSIVE stream_unrank_loop(_)
stream_unrank_loop(st) ==
    LET r == next_chunk(st.unranker, st.cache, UNRANK_CHUNK)
    IN IF r.result = <<>> THEN st
       ELSE stream_unrank_loop(
                [unranker |-> r.unranker, cache |-> r.cache,
                 bits |-> st.bits \o r.result])

\* the bits the iterator yields and the cache left behind
stream_unrank(c, idx, total_ones, total_zeros) ==
    LET st == stream_unrank_loop(
                  [unranker |-> BitUnranker_new(idx, total_ones, total_zeros),
                   cache |-> c, bits |-> <<>>])
    IN [ret |-> st.bits, cache |-> st.cache]

(***************************************************************************)
(* State.                                                                  *)
(*   ones, zeros  the composition declared to the encoder and the decoder  *)
(*   phase        "encoding", "finalized", "decoding", or "provider" in    *)
(*                the specifications of BinomialCache alone                *)
(*   submitted    the bits handed to process_chunk so far, in order        *)
(*   ranker       the BitRanker                                            *)
(*   rank         the value finalize returned (None before)                *)
(*   index        the index BitUnranker::new was given (None before)       *)
(*   unranker     the BitUnranker (None before it is constructed)          *)
(*   emitted      the chunks next_chunk has returned, concatenated         *)
(*   last         the last next_chunk call: its argument, the chunk it     *)
(*                returned and the unranker it found (None before)         *)
(*   cache        the entries of BINOM_CACHE's LruCache, most recent first *)
(*   mutex        the thread holding the cache's Mutex, 0 when it is free  *)
(*   threads      per thread, its place in BinomialCache::get and locals   *)
(*   call         the last sequential BinomialCache::get call (None before)*)
(*   overflow_checks  whether the build checks integer arithmetic (a debug *)
(*                build: overflow panics) or not (a release build: it      *)
(*                wraps); fixed for the whole run, so it is part of what   *)
(*                both the codec and the provider leave unchanged          *)
(***************************************************************************)
VARIABLES ones, zeros, phase, submitted, ranker, rank, index, unranker,
          emitted, last, cache, mutex, threads, call, overflow_checks

codec_vars == <<ones, zeros, phase, submitted, ranker, rank, index, unranker,
                emitted, last, overflow_checks>>

provider_vars == <<mutex, threads, call, overflow_checks>>

vars == <<ones, zeros, phase, submitted, ranker, rank, index, unranker,
          emitted, last, cache, mutex, threads, call, overflow_checks>>

Threads == 1..NumThreads

IdleThread == [pc |-> "idle", n |-> 0, k |-> 0, result |-> None]

\* Where every counter stays far below the word size no operation
\* overflows and all builds run alike: one build stands for them.
NoOverflow == overflow_checks = FALSE

NoProvider ==
    /\ mutex = 0
    /\ threads = [t \in Threads |-> IdleThread]
    /\ call = None

NoCodec ==
    /\ ones = 0
    /\ zeros = 0
    /\ phase = "provider"
    /\ submitted = <<>>
    /\ ranker = None
    /\ rank = None
    /\ index = None
    /\ unranker = None
    /\ emitted = <<>>
    /\ last = None

\* sequences over Bit of length 0..len
BitSeqs(len) == UNION {[1..l -> Bit] : l \in 0..len}

(***************************************************************************)
(* The codec session: BitRanker::new, process_chunk*, finalize, then       *)
(* BitUnranker::new on the rank and next_chunk*.                           *)
(***************************************************************************)
Init ==
    /\ ones \in 0..MaxOnes
    /\ zeros \in 0..MaxZeros
    /\ phase = "encoding"
    /\ submitted = <<>>
    /\ ranker = BitRanker_new(ones, zeros)
    /\ rank = None
    /\ index = None
    /\ unranker = None
    /\ emitted = <<>>
    /\ last = None
    /\ cache = <<>>
    /\ NoProvider
    /\ NoOverflow

ProcessChunk(chunk) ==
    /\ phase = "encoding"
    /\ Len(submitted) + Len(chunk) <= ones + zeros + Oversupply
    /\ LET p == process_chunk(ranker, cache, chunk)
       IN /\ ranker' = p.ranker
          /\ cache' = p.cache
    /\ submitted' = submitted \o chunk
    /\ UNCHANGED <<ones, zeros, phase, rank, index, unranker, emitted, last>>
    /\ UNCHANGED provider_vars

Finalize ==
    /\ phase = "encoding"
    /\ rank' = finalize(ranker)
    /\ phase' = "finalized"
    /\ UNCHANGED <<ones, zeros, submitted, ranker, index, unranker, emitted,
                   last, cache>>
    /\ UNCHANGED provider_vars

NewUnranker ==
    /\ phase = "finalized"
    /\ index' = rank
    /\ unranker' = BitUnranker_new(rank, ones, zeros)
    /\ phase' = "decoding"
    /\ UNCHANGED <<ones, zeros, submitted, ranker, rank, emitted, last, cache>>
    /\ UNCHANGED provider_vars

NextChunk(chunk_size) ==
    /\ phase = "decoding"
    /\ \E r \in {next_chunk(unranker, cache, chunk_size)} :
          /\ unranker' = r.unranker
          /\ cache' = r.cache
          /\ emitted' = emitted \o r.result
          /\ last' = [chunk_size |-> chunk_size, chunk |-> r.result,
                      before |-> unranker]
    /\ UNCHANGED <<ones, zeros, phase, submitted, ranker, rank, index>>
    /\ UNCHANGED provider_vars

Next ==
    \/ \E chunk \in BitSeqs(MaxChunk) : ProcessChunk(chunk)
    \/ Finalize
    \/ NewUnranker
    \/ \E chunk_size \in 0..(MaxChunk + 1) : NextChunk(chunk_size)

Spec == Init /\ [][Next]_vars

(***************************************************************************)
(* Reference definitions the properties are stated with.                   *)
(***************************************************************************)
ExampleN == 50

CountOf(bits, bit) == Cardinality({j \in 1..Len(bits) : bits[j] = bit})

\* the bit sequences of composition (o, z)
CompositionSeqs(o, z) ==
    {s \in [1..(o + z) -> Bit] : CountOf(s, 1) = o}

HasComposition(bits, o, z) == CountOf(bits, 1) = o /\ CountOf(bits, 0) = z

\* s before t in the lexicographic order, unset before set
LexLess(s, t) ==
    \E j \in 1..Min(Len(s), Len(t)) :
        /\ s[j] = 0
        /\ t[j] = 1
        /\ \A h \in 1..(j - 1) : s[h] = t[h]

\* Pascal's triangle, C(n, 0) = C(n, n) = 1 and C(n, k) = C(n-1, k-1) +
\* C(n-1, k), built row by row up to row ExampleN
PascalNextRow(r, n) ==
    [k \in 0..n |-> IF k = 0 \/ k = n THEN One ELSE BigAdd(r[k - 1], r[k])]

RECURSIVE PascalRows(_, _)
PascalRows(rows, n) ==
    IF Len(rows) > n THEN rows
    ELSE PascalRows(Append(rows, PascalNextRow(rows[Len(rows)], Len(rows))), n)

PascalTriangle == PascalRows(<< [k \in {0} |-> One] >>, ExampleN)

\* C(n, k) for 0 <= k <= n <= ExampleN
Choose(n, k) == PascalTriangle[n + 1][k]

\* the largest n BinomialCache::get is asked for
MaxGetN == PRECOMPUTE_LIMIT + CacheCapacity

\* a * from * (from + 1) * ... * to
RECURSIVE BigMulRange(_, _)
BigMulRange(st, to) ==
    IF st.from > to THEN st.a
    ELSE BigMulRange([a |-> BigMulU64(st.a, st.from), from |-> st.from + 1], to)

\* v = C(n, k) for any 0 <= k <= n, by C(n, j) * j! = n * (n-1) * ... *
\* (n-j+1) for j the smaller of k and n - k (C(n, k) = C(n, n-k))
IsChoose(v, n, k) ==
    LET j == Min(k, n - k)
    IN BigMulRange([a |-> v, from |-> 1], j)
           = BigMulRange([a |-> One, from |-> n - j + 1], n)

(***************************************************************************)
(* The decoder alone, constructed on any index, in range or not.           *)
(***************************************************************************)
InitDec ==
    /\ ones \in 0..MaxOnes
    /\ zeros \in 0..MaxZeros
    /\ \E x \in 0..(Cardinality(CompositionSeqs(ones, zeros)) - 1 + ExtraIndex) :
           index = BigFromU64(x)
    /\ unranker = BitUnranker_new(index, ones, zeros)
    /\ phase = "decoding"
    /\ submitted = <<>>
    /\ ranker = None
    /\ rank = None
    /\ emitted = <<>>
    /\ last = None
    /\ cache = <<>>
    /\ NoProvider
    /\ NoOverflow

NextDec == \E chunk_size \in 0..(MaxChunk + 1) : NextChunk(chunk_size)

SpecDec == InitDec /\ [][NextDec]_vars

(***************************************************************************)
(* BinomialCache::get called sequentially, each call run to completion.    *)
(***************************************************************************)
\* arguments served from the LruCache: one key (n, KSpan) per n, asked for
\* as k and as n - k, one n more than the cache holds, and the key
\* (PRECOMPUTE_LIMIT, 0)
CacheArgs ==
    {<<n, k>> : n \in PRECOMPUTE_LIMIT..MaxGetN, k \in {KSpan}}
    \cup {<<n, n - KSpan>> : n \in PRECOMPUTE_LIMIT..MaxGetN}
    \cup {<<PRECOMPUTE_LIMIT, 0>>, <<PRECOMPUTE_LIMIT, PRECOMPUTE_LIMIT>>}

NearEdgeOrMiddle(n, k) ==
    \/ k <= KSpan
    \/ n - k <= KSpan
    \/ (2 * k - n <= 2 * KSpan /\ n - 2 * k <= 2 * KSpan)

\* arguments served from the precomputed table
TableArgs ==
    {<<n, k>> \in (0..(MaxOnes + MaxZeros)) \X (0..(MaxOnes + MaxZeros)) : k <= n}
    \cup {<<ExampleN, k>> : k \in {j \in 0..ExampleN : NearEdgeOrMiddle(ExampleN, j)}}
    \cup {<<PRECOMPUTE_LIMIT - 1, k>> : k \in {0, KSpan, PRECOMPUTE_LIMIT - 1 - KSpan,
                                              PRECOMPUTE_LIMIT - 1}}

InitProvider ==
    /\ NoCodec
    /\ cache = <<>>
    /\ NoProvider
    /\ NoOverflow

Get(n, k) ==
    /\ phase = "provider"
    /\ LET g == get(cache, n, k)
       IN /\ cache' = g.cache
          /\ call' = [n |-> n, k |-> k, ret |-> g.ret, before |-> cache]
    /\ UNCHANGED codec_vars
    /\ UNCHANGED <<mutex, threads>>

NextProvider == \E a \in CacheArgs \cup TableArgs : Get(a[1], a[2])

SpecProvider == InitProvider /\ [][NextProvider]_vars

(***************************************************************************)
(* BinomialCache::get called by several threads.  A thread's pc:           *)
(*   "idle"    outside get                                                 *)
(*   "lock"    past the table test, at self.cache.lock() (line 37)         *)
(*   "lookup"  holding the mutex, at cache.get(&(n, k)) (line 38)          *)
(*   "insert"  holding the mutex after a miss, at compute_binomial and     *)
(*             cache.put (lines 42-43)                                     *)
(*   "return"  about to return result; the guard, if held, is dropped      *)
(***************************************************************************)
ThreadArgs ==
    {<<n, k>> : n \in PRECOMPUTE_LIMIT..MaxGetN, k \in {KSpan}}
    \cup {<<n, n - KSpan>> : n \in PRECOMPUTE_LIMIT..MaxGetN}
    \cup {<<PRECOMPUTE_LIMIT - 1, KSpan>>}

InitThreads ==
    /\ NoCodec
    /\ cache = <<>>
    /\ NoProvider
    /\ NoOverflow

\* lines 31-35: reduce k; a table hit returns without touching the mutex
Call(t, n, k) ==
    /\ threads[t].pc = "idle"
    /\ LET kr == reduced_k(n, k)
       IN threads' = [threads EXCEPT ![t] =
              IF in_table(n, kr)
              THEN [pc |-> "return", n |-> n, k |-> k, result |-> precomputed(n, kr)]
              ELSE [pc |-> "lock", n |-> n, k |-> k, result |-> None]]
    /\ UNCHANGED <<cache, mutex, call>>
    /\ UNCHANGED codec_vars

\* line 37: self.cache.lock() blocks while another thread holds the mutex
MutexNeverBlocks == TRUE

MutexFree == mutex = 0

Lock(t) ==
    /\ threads[t].pc = "lock"
    /\ MutexFree
    /\ mutex' = t
    /\ threads' = [threads EXCEPT ![t].pc = "lookup"]
    /\ UNCHANGED <<cache, call>>
    /\ UNCHANGED codec_vars

\* lines 38-40: cache.get(&(n, k))
Lookup(t) ==
    /\ threads[t].pc = "lookup"
    /\ LET key == <<threads[t].n, reduced_k(threads[t].n, threads[t].k)>>
       IN IF key \in LruKeys(cache)
          THEN /\ threads' = [threads EXCEPT ![t].pc = "return",
                                             ![t].result = LruPeek(cache, key)]
               /\ cache' = LruPromote(cache, key)
          ELSE /\ threads' = [threads EXCEPT ![t].pc = "insert"]
               /\ cache' = cache
    /\ UNCHANGED <<mutex, call>>
    /\ UNCHANGED codec_vars

\* lines 42-43: compute_binomial and cache.put
Insert(t) ==
    /\ threads[t].pc = "insert"
    /\ LET kr == reduced_k(threads[t].n, threads[t].k)
           result == compute_binomial(threads[t].n, kr)
       IN /\ cache' = LruPut(cache, <<threads[t].n, kr>>, result)
          /\ threads' = [threads EXCEPT ![t].pc = "return", ![t].result = result]
    /\ UNCHANGED <<mutex, call>>
    /\ UNCHANGED codec_vars

\* lines 34, 39, 44: the value is returned and the MutexGuard dropped
Return(t) ==
    /\ threads[t].pc = "return"
    /\ threads' = [threads EXCEPT ![t] = IdleThread]
    /\ mutex' = IF mutex = t THEN 0 ELSE mutex
    /\ UNCHANGED <<cache, call>>
    /\ UNCHANGED codec_vars

NextThreads ==
    \E t \in Threads :
        \/ \E a \in ThreadArgs : Call(t, a[1], a[2])
        \/ Lock(t)
        \/ Lookup(t)
        \/ Insert(t)
        \/ Return(t)

SpecThreads == InitThreads /\ [][NextThreads]_vars

(***************************************************************************)
(* Machine words.  remaining_ones, remaining_zeros and the arguments of    *)
(* get are u64.  An operation whose result does not fit panics in a build  *)
(* that checks overflow and wraps in a build that does not.                *)
(***************************************************************************)
WORD == 2^WordBits

\* a variant that does not wrap
wrapping_add_wide(a, b) == a + b

wrapping_add(a, b) == (a + b) % WORD

wrapping_sub(a, b) == (a - b + WORD) % WORD

add_overflows(a, b) == a + b >= WORD

sub_overflows(a, b) == a < b

(***************************************************************************)
(* BinomialCache::get on words, u64 arithmetic included.  A call's frame:  *)
(*   pc      "idle", "loop" (in compute_binomial's for loop, mutex held),  *)
(*           "put" (compute_binomial has returned, at line 43),            *)
(*           "returned", "panicked"                                        *)
(*   n, k    the arguments;  kr  get's k after line 31                     *)
(*   ck, i, result  compute_binomial's k after line 54, its i, its result  *)
(*   ret     the value returned                                            *)
(***************************************************************************)
IdleFrame ==
    [pc |-> "idle", n |-> 0, k |-> 0, kr |-> 0, ck |-> 0, i |-> 0,
     result |-> Zero, ret |-> Zero]

\* a poisoned Mutex: a thread panicked while holding the guard
Poisoned == 0 - 1

\* compute_binomial lines 49-54, up to the loop
compute_enter(f, checks) ==
    IF f.kr = 0 \/ f.kr = f.n THEN [f EXCEPT !.pc = "put", !.result = One]
    ELSE IF checks /\ sub_overflows(f.n, f.kr) THEN [f EXCEPT !.pc = "panicked"]
    ELSE [f EXCEPT !.pc = "loop", !.result = One, !.i = 1,
                   !.ck = Min(f.kr, wrapping_sub(f.n, f.kr))]

\* one iteration of line 57: result = result * (n - k + i) / i
compute_step(f, checks) ==
    LET diff == wrapping_sub(f.n, f.ck)
        factor == wrapping_add(diff, f.i)
    IN IF checks /\ (sub_overflows(f.n, f.ck) \/ add_overflows(diff, f.i))
       THEN [f EXCEPT !.pc = "panicked"]
       ELSE [f EXCEPT !.result = BigDivRemU64(BigMulU64(@, factor), f.i).quot,
                      !.i = @ + 1,
                      !.pc = IF f.i = f.ck THEN "put" ELSE "loop"]

\* get lines 31-42, up to compute_binomial's loop: the frame, the cache and
\* the Mutex (1 while the caller holds the guard).  The table holds Some
\* only for k <= n (lines 17-22) and unwrap panics on None; lock().unwrap()
\* panics on a poisoned Mutex; a panic under the guard poisons the Mutex.
get_enter(c, m, n, k, checks) ==
    LET f == [IdleFrame EXCEPT !.n = n, !.k = k]
    IN IF checks /\ sub_overflows(n, k)
       THEN [frame |-> [f EXCEPT !.pc = "panicked"], cache |-> c, mutex |-> m]
       ELSE LET kr == Min(k, wrapping_sub(n, k))
                g == [f EXCEPT !.kr = kr]
            IN IF in_table(n, kr)
               THEN IF kr <= n
                    THEN [frame |-> [g EXCEPT !.pc = "returned",
                                              !.ret = precomputed(n, kr)],
                          cache |-> c, mutex |-> m]
                    ELSE [frame |-> [g EXCEPT !.pc = "panicked"],
                          cache |-> c, mutex |-> m]
               ELSE IF m = Poisoned
               THEN [frame |-> [g EXCEPT !.pc = "panicked"],
                     cache |-> c, mutex |-> m]
               ELSE IF <<n, kr>> \in LruKeys(c)
               THEN [frame |-> [g EXCEPT !.pc = "returned",
                                         !.ret = LruPeek(c, <<n, kr>>)],
                     cache |-> LruPromote(c, <<n, kr>>), mutex |-> m]
               ELSE LET e == compute_enter(g, checks)
                    IN [frame |-> e, cache |-> c,
                        mutex |-> IF e.pc = "panicked" THEN Poisoned ELSE 1]

\* get lines 43-44: cache.put((n, k), result.clone()); result
get_put(f, c) ==
    [frame |-> [f EXCEPT !.pc = "returned", !.ret = f.result],
     cache |-> LruPut(c, <<f.n, f.kr>>, f.result)]

(***************************************************************************)
(* BinomialCache::get called sequentially on words, in either build, with  *)
(* arguments inside and outside its domain k <= n.  The for loop of        *)
(* compute_binomial runs one iteration per step; nothing else runs between *)
(* the steps of a call.  A panic unwinds the caller; later calls come from *)
(* other callers of the static BINOM_CACHE.                                *)
(***************************************************************************)
\* k > n: answered from the table's None entries (n small, reduced k small),
\* or by compute_binomial (reduced k or n at or above PRECOMPUTE_LIMIT)
OutOfDomainArgs ==
    {<<0, 1>>, <<0, WORD - 1>>, <<MaxOnes, MaxOnes + MaxZeros>>,
     <<KSpan, PRECOMPUTE_LIMIT>>,
     <<PRECOMPUTE_LIMIT - 1, PRECOMPUTE_LIMIT>>,
     <<PRECOMPUTE_LIMIT, PRECOMPUTE_LIMIT + KSpan>>,
     <<PRECOMPUTE_LIMIT, WORD - 1>>}

InDomainArgs ==
    {<<MaxOnes + MaxZeros, MaxOnes>>, <<PRECOMPUTE_LIMIT, KSpan>>,
     <<PRECOMPUTE_LIMIT, PRECOMPUTE_LIMIT>>}

InitWord ==
    /\ NoCodec
    /\ cache = <<>>
    /\ mutex = 0
    /\ threads = [t \in Threads |-> IdleThread]
    /\ call = IdleFrame
    /\ overflow_checks \in BOOLEAN

GetEnter(n, k) ==
    /\ phase = "provider"
    /\ call.pc \in {"idle", "returned", "panicked"}
    /\ \E e \in {get_enter(cache, mutex, n, k, overflow_checks)} :
          /\ call' = e.frame
          /\ cache' = e.cache
          /\ mutex' = e.mutex
    /\ UNCHANGED codec_vars
    /\ UNCHANGED threads

ComputeStep ==
    /\ call.pc = "loop"
    /\ \E f \in {compute_step(call, overflow_checks)} :
          /\ call' = f
          /\ mutex' = IF f.pc = "panicked" THEN Poisoned ELSE mutex
    /\ UNCHANGED codec_vars
    /\ UNCHANGED <<cache, threads>>

GetReturn ==
    /\ call.pc = "put"
    /\ \E e \in {get_put(call, cache)} :
          /\ call' = e.frame
          /\ cache' = e.cache
    /\ mutex' = 0
    /\ UNCHANGED codec_vars
    /\ UNCHANGED threads

NextWord ==
    \/ \E a \in OutOfDomainArgs \cup InDomainArgs : GetEnter(a[1], a[2])
    \/ ComputeStep
    \/ GetReturn

SpecWord == InitWord /\ [][NextWord]_vars

(***************************************************************************)
(* The streaming codec on words.  get is run to completion inside the      *)
(* operation that calls it; an operation that panics leaves the object as  *)
(* it was at the panic.  calls lists the get calls an operation has made:  *)
(* the arguments, the counters they were computed from, and whether the    *)
(* computation of n or the n - k of get wrapped.                           *)
(***************************************************************************)
RECURSIVE get_run(_, _)
get_run(f, checks) ==
    IF f.pc = "loop" THEN get_run(compute_step(f, checks), checks) ELSE f

\* BinomialCache::get run to completion: its last frame and the cache
get_word(c, n, k, checks) ==
    LET e == get_enter(c, 0, n, k, checks)
        f == get_run(e.frame, checks)
    IN IF f.pc = "put" THEN get_put(f, e.cache)
       ELSE [frame |-> f, cache |-> e.cache]

\* let n = (self.remaining_ones + self.remaining_zeros - 1) as u64 panics
n_overflows(x) ==
    \/ add_overflows(x.remaining_ones, x.remaining_zeros)
    \/ sub_overflows(wrapping_add(x.remaining_ones, x.remaining_zeros), 1)

word_n(x) == wrapping_sub(wrapping_add(x.remaining_ones, x.remaining_zeros), 1)

GetCall(x) ==
    [n |-> word_n(x), k |-> x.remaining_ones,
     remaining_ones |-> x.remaining_ones,
     remaining_zeros |-> x.remaining_zeros,
     wrapped |-> n_overflows(x) \/ sub_overflows(word_n(x), x.remaining_ones)]

\* BitRanker::process_chunk: for bit in chunk { ... }
RECURSIVE process_chunk_word_loop(_, _, _)
process_chunk_word_loop(st, chunk, checks) ==
    IF st.panicked \/ st.i > Len(chunk) \/ ranker_stop(st.ranker) THEN st
    ELSE IF chunk[st.i] = 1
    THEN IF checks /\ n_overflows(st.ranker)
         THEN [st EXCEPT !.panicked = TRUE]
         ELSE LET g == get_word(st.cache, word_n(st.ranker),
                                st.ranker.remaining_ones, checks)
                  made == Append(st.calls, GetCall(st.ranker))
              IN IF g.frame.pc = "panicked"
                 THEN [st EXCEPT !.panicked = TRUE, !.calls = made]
                 ELSE process_chunk_word_loop(
                          [st EXCEPT !.ranker.current_index = BigAdd(@, g.frame.ret),
                                     !.ranker.remaining_ones = @ - 1,
                                     !.cache = g.cache,
                                     !.calls = made,
                                     !.i = @ + 1], chunk, checks)
    ELSE process_chunk_word_loop(
             [st EXCEPT !.ranker.remaining_zeros = @ - 1, !.i = @ + 1],
             chunk, checks)

process_chunk_word(r, c, chunk, checks) ==
    process_chunk_word_loop(
        [ranker |-> r, cache |-> c, i |-> 1, panicked |-> FALSE, calls |-> <<>>],
        chunk, checks)

\* BitUnranker::next_chunk: for i in 0..chunk_size { ... }
RECURSIVE next_chunk_word_loop(_, _, _)
next_chunk_word_loop(st, chunk_size, checks) ==
    IF st.panicked \/ ~(st.i < chunk_size) THEN st
    ELSE IF st.unranker.remaining_ones = 0
    THEN next_chunk_word_loop(
             [st EXCEPT !.result[st.i + 1] = 0,
                        !.unranker.remaining_zeros = saturating_sub(@, 1),
                        !.i = @ + 1], chunk_size, checks)
    ELSE IF st.unranker.remaining_zeros = 0
    THEN next_chunk_word_loop(
             [st EXCEPT !.result[st.i + 1] = 1,
                        !.unranker.remaining_ones = @ - 1,
                        !.i = @ + 1], chunk_size, checks)
    ELSE IF checks /\ n_overflows(st.unranker)
    THEN [st EXCEPT !.panicked = TRUE]
    ELSE LET g == get_word(st.cache, word_n(st.unranker),
                           st.unranker.remaining_ones, checks)
             made == Append(st.calls, GetCall(st.unranker))
         IN IF g.frame.pc = "panicked"
            THEN [st EXCEPT !.panicked = TRUE, !.calls = made]
            ELSE IF BigGt(g.frame.ret, st.unranker.remaining_index)
            THEN next_chunk_word_loop(
                     [st EXCEPT !.result[st.i + 1] = 0,
                                !.unranker.remaining_zeros = @ - 1,
                                !.cache = g.cache,
                                !.calls = made,
                                !.i = @ + 1], chunk_size, checks)
            ELSE next_chunk_word_loop(
                     [st EXCEPT !.result[st.i + 1] = 1,
                                !.unranker.remaining_index = BigSub(@, g.frame.ret),
                                !.unranker.remaining_ones = @ - 1,
                                !.cache = g.cache,
                                !.calls = made,
                                !.i = @ + 1], chunk_size, checks)

\* line 68 adds the two counters before the loop
next_chunk_word(u, c, chunk_size, checks) ==
    LET st == [unranker |-> u, cache |-> c, result |-> <<>>, i |-> 0,
               panicked |-> FALSE, calls |-> <<>>]
    IN IF checks /\ add_overflows(u.remaining_ones, u.remaining_zeros)
       THEN [st EXCEPT !.panicked = TRUE]
       ELSE LET clamped == Min(chunk_size,
                               wrapping_add(u.remaining_ones, u.remaining_zeros))
            IN next_chunk_word_loop(
                   [st EXCEPT !.result = Repeat(0, clamped)], clamped, checks)

\* counts next to 0 and next to the largest word
WordCounts == (0..MaxZeros) \cup ((WORD - 1 - MaxZeros)..(WORD - 1))

\* at most one of the two counts is large
WordCompositions ==
    {c \in WordCounts \X WordCounts : Min(c[1], c[2]) <= MaxZeros}

\* the operations of one object are followed for this many bits
WordBitsFollowed == MaxOnes + MaxZeros

InitCodecWord ==
    /\ \E c \in WordCompositions : ones = c[1] /\ zeros = c[2]
    /\ overflow_checks \in BOOLEAN
    /\ \/ /\ phase = "encoding"
          /\ ranker = BitRanker_new(ones, zeros)
          /\ index = None
          /\ unranker = None
       \/ /\ phase = "decoding"
          /\ ranker = None
          /\ \E x \in 0..ExtraIndex : index = BigFromU64(x)
          /\ unranker = BitUnranker_new(index, ones, zeros)
    /\ submitted = <<>>
    /\ rank = None
    /\ emitted = <<>>
    /\ last = None
    /\ cache = <<>>
    /\ mutex = 0
    /\ threads = [t \in Threads |-> IdleThread]
    /\ call = <<>>

ProcessChunkWord(chunk) ==
    /\ phase = "encoding"
    /\ Len(submitted) + Len(chunk) <= WordBitsFollowed
    /\ \E p \in {process_chunk_word(ranker, cache, chunk, overflow_checks)} :
          /\ ranker' = p.ranker
          /\ cache' = p.cache
          /\ call' = p.calls
          /\ phase' = IF p.panicked THEN "panicked" ELSE phase
    /\ submitted' = submitted \o chunk
    /\ UNCHANGED <<ones, zeros, rank, index, unranker, emitted, last>>
    /\ UNCHANGED <<mutex, threads, overflow_checks>>

NextChunkWord(chunk_size) ==
    /\ phase = "decoding"
    /\ Len(emitted) < WordBitsFollowed
    /\ \E r \in {next_chunk_word(unranker, cache, chunk_size, overflow_checks)} :
          /\ unranker' = r.unranker
          /\ cache' = r.cache
          /\ call' = r.calls
          /\ phase' = IF r.panicked THEN "panicked" ELSE phase
          /\ emitted' = IF r.panicked THEN emitted ELSE emitted \o r.result
          /\ last' = [chunk_size |-> chunk_size,
                      chunk |-> IF r.panicked THEN <<>> ELSE r.result,
                      before |-> unranker]
    /\ UNCHANGED <<ones, zeros, submitted, ranker, rank, index>>
    /\ UNCHANGED <<mutex, threads, overflow_checks>>

NextCodecWord ==
    \/ \E chunk \in BitSeqs(MaxChunk) : ProcessChunkWord(chunk)
    \/ \E chunk_size \in 0..(MaxChunk + 1) : NextChunkWord(chunk_size)

SpecCodecWord == InitCodecWord /\ [][NextCodecWord]_vars

(***************************************************************************)
(* Properties.                                                             *)
(***************************************************************************)
Codec == phase \in {"encoding", "finalized", "decoding"}

\* finalize has returned: rank holds its value
Finalized == ranker # None /\ phase \in {"finalized", "decoding"}

Drained ==
    /\ phase = "decoding"
    /\ unranker.remaining_ones = 0
    /\ unranker.remaining_zeros = 0

\* the index given to the decoder is a rank of the composition
InRange == BigGt(Choose(ones + zeros, ones), index)

\* the number of sequences of the composition before bits
LexRank(bits, o, z) ==
    BigFromU64(Cardinality({t \in CompositionSeqs(o, z) : LexLess(t, bits)}))

\* C1: round trip.  Whenever the submitted bits have exactly the declared
\* composition: the decoder constructed on the finalized rank, once drained,
\* has emitted exactly the submitted bits; stream_unrank of stream_rank
\* returns them; and get_nth_permutation of get_permutation_index returns
\* them.  Compositions with ones = 0 or zeros = 0 are among the cases.
C1_RoundTrip ==
    (Codec /\ HasComposition(submitted, ones, zeros)) =>
        /\ (Drained /\ Finalized) => emitted = submitted
        /\ stream_unrank(cache, stream_rank(cache, submitted, ones, zeros).ret,
                         ones, zeros).ret = submitted
        /\ get_nth_permutation(get_permutation_index(submitted, ones, zeros),
                               ones, zeros) = submitted

C1_Witness ==
    /\ Drained
    /\ Finalized
    /\ HasComposition(submitted, ones, zeros)
    /\ ones = MaxOnes
    /\ zeros = MaxZeros
    /\ rank # Zero
    /\ emitted = submitted

\* C2: the rank finalize returns for bits of exactly the declared
\* composition is the number of sequences of that composition that are
\* lexicographically smaller; every lexicographically smaller sequence of
\* the composition has a strictly smaller rank (streaming and batch); the
\* sequence with all zeros first has rank 0; and [1,0,1,1,0] with ones = 3,
\* zeros = 2 has rank 6.
C2_LexicographicRank ==
    (Finalized /\ HasComposition(submitted, ones, zeros)) =>
        /\ rank = LexRank(submitted, ones, zeros)
        /\ get_permutation_index(submitted, ones, zeros)
               = LexRank(submitted, ones, zeros)
        /\ \A t \in CompositionSeqs(ones, zeros) :
               LexLess(t, submitted) =>
                   /\ BigGt(rank, stream_rank(cache, t, ones, zeros).ret)
                   /\ BigGt(rank, get_permutation_index(t, ones, zeros))
        /\ (submitted = Repeat(0, zeros) \o Repeat(1, ones) => rank = Zero)
        /\ ((submitted = <<1, 0, 1, 1, 0>> /\ ones = 3 /\ zeros = 2)
               => rank = BigFromU64(6))

C2_Witness ==
    /\ phase = "finalized"
    /\ submitted = <<1, 0, 1, 1, 0>>
    /\ ones = 3
    /\ zeros = 2
    /\ rank = BigFromU64(6)

\* C3: whatever bits were submitted, of the declared composition or not, and
\* however they were split into process_chunk calls (empty chunks, single
\* bits, longer chunks), the accumulated rank, and so the rank finalize
\* returns, is the rank get_permutation_index returns for the whole
\* sequence; so are the rank of one process_chunk call on the whole sequence
\* and the rank of stream_rank.
C3_StreamingEqualsBatch ==
    (Codec /\ ranker # None) =>
        LET batch == get_permutation_index(submitted, ones, zeros)
        IN /\ ranker.current_index = batch
           /\ (Finalized => rank = batch)
           /\ finalize(process_chunk(BitRanker_new(ones, zeros), cache,
                                     submitted).ranker) = batch
           /\ stream_rank(cache, submitted, ones, zeros).ret = batch

C3_Witness ==
    /\ phase = "finalized"
    /\ Len(submitted) >= 3
    /\ Len(submitted) % 2 = 1
    /\ ~HasComposition(submitted, ones, zeros)
    /\ BigGt(rank, One)

\* C4: for an index below C(ones+zeros, ones), the chunks next_chunk has
\* returned so far, concatenated in call order, are a prefix of the sequence
\* get_nth_permutation returns for the same index and composition, and once
\* the decoder is drained they are that whole sequence.
C4_ChunkedEqualsBatchDecode ==
    (phase = "decoding" /\ InRange) =>
        LET batch == get_nth_permutation(index, ones, zeros)
        IN /\ Len(emitted) <= Len(batch)
           /\ emitted = SubSeq(batch, 1, Len(emitted))
           /\ (Drained => emitted = batch)

C4_Witness ==
    /\ Drained
    /\ InRange
    /\ ones >= 2
    /\ zeros >= 2
    /\ index # Zero
    /\ last # None
    /\ last.chunk_size = 1
    /\ last.chunk = <<1>>
    /\ emitted = get_nth_permutation(index, ones, zeros)

\* C5: the rank accumulated by the streaming encoder after any process_chunk
\* calls, the rank finalize returns and the rank get_permutation_index
\* returns are all below C(ones+zeros, ones), for any submitted bits.
C5_RankBound ==
    (Codec /\ ranker # None) =>
        /\ BigGt(Choose(ones + zeros, ones), ranker.current_index)
        /\ (Finalized => BigGt(Choose(ones + zeros, ones), rank))
        /\ BigGt(Choose(ones + zeros, ones),
                 get_permutation_index(submitted, ones, zeros))

C5_Witness ==
    /\ phase = "finalized"
    /\ ones >= 2
    /\ zeros >= 2
    /\ BigAdd(rank, One) = Choose(ones + zeros, ones)
    /\ ~HasComposition(submitted, ones, zeros)

\* C6: every next_chunk(chunk_size) call returns exactly min(chunk_size,
\* ones + zeros - bits emitted before the call) bits; the bits still to come
\* are ones + zeros less the bits emitted, so the total emitted never
\* exceeds ones + zeros and is exactly ones + zeros once the decoder is
\* drained; get_nth_permutation returns exactly ones + zeros bits.  All of
\* this for every index, at or beyond C(ones+zeros, ones) included.
C6_OutputLength ==
    phase = "decoding" =>
        /\ unranker.remaining_ones + unranker.remaining_zeros
               = ones + zeros - Len(emitted)
        /\ Len(emitted) <= ones + zeros
        /\ (Drained => Len(emitted) = ones + zeros)
        /\ (last # None =>
               /\ Len(last.chunk)
                      = Min(last.chunk_size,
                            ones + zeros - (Len(emitted) - Len(last.chunk)))
               /\ \A j \in 1..Len(last.chunk) : last.chunk[j] \in Bit)
        /\ Len(get_nth_permutation(index, ones, zeros)) = ones + zeros

C6_Witness ==
    /\ Drained
    /\ ~InRange
    /\ ones >= 1
    /\ zeros >= 2
    /\ last # None
    /\ last.chunk_size = MaxChunk + 1
    /\ Len(last.chunk) = 1
    /\ Len(emitted) = ones + zeros

\* C7: a next_chunk call that finds the decoder exhausted (remaining_ones =
\* 0 and remaining_zeros = 0) returns an empty chunk and leaves
\* remaining_index, remaining_ones and remaining_zeros as they were,
\* whatever chunk_size it is given.
C7_PostExhaustion ==
    (phase = "decoding" /\ last # None
        /\ last.before.remaining_ones = 0 /\ last.before.remaining_zeros = 0) =>
        /\ last.chunk = <<>>
        /\ unranker.remaining_index = last.before.remaining_index
        /\ unranker.remaining_ones = last.before.remaining_ones
        /\ unranker.remaining_zeros = last.before.remaining_zeros

C7_Witness ==
    /\ phase = "decoding"
    /\ last # None
    /\ last.before.remaining_ones = 0
    /\ last.before.remaining_zeros = 0
    /\ last.chunk_size = MaxChunk + 1
    /\ ones + zeros >= 3
    /\ Len(emitted) = ones + zeros
    /\ last.chunk = <<>>

\* compute_binomial meets Pascal's recurrence on every row up to MaxGetN for
\* k up to KSpan: C(n, 0) = C(n, n) = 1 and C(n, k) = C(n-1, k-1) + C(n-1, k)
PascalRecurrenceOnBand ==
    \A n \in 0..MaxGetN :
        /\ compute_binomial(n, 0) = One
        /\ compute_binomial(n, n) = One
        /\ \A k \in 1..Min(KSpan, n - 1) :
               compute_binomial(n, k)
                   = BigAdd(compute_binomial(n - 1, k - 1),
                            compute_binomial(n - 1, k))

\* the value C(n, k): the entry of Pascal's triangle where the triangle is
\* built, and the factorial identity everywhere
IsExact(v, n, k) ==
    /\ IsChoose(v, n, k)
    /\ (n <= ExampleN => v = Choose(n, k))

\* C8: BinomialCache::get(n, k) returns exactly C(n, k), whether the table,
\* a cache hit or a cache miss serves it and whatever calls and evictions
\* came before: the value the last call returned is exact, and from the
\* cache contents reached every further call the cache serves returns the
\* exact value; every division of the multiplicative loop leaves remainder
\* 0; the computed values meet Pascal's recurrence; and get(50, 25) =
\* 126410606437752.
C8_ProviderExact ==
    phase = "provider" =>
        /\ (call # None =>
               /\ IsExact(call.ret, call.n, call.k)
               /\ compute_binomial_rems(call.n, reduced_k(call.n, call.k))
                      \subseteq {0})
        /\ \A a \in CacheArgs :
               IsExact(get(cache, a[1], a[2]).ret, a[1], a[2])
        /\ PascalRecurrenceOnBand
        /\ get(cache, ExampleN, 25).ret = <<437752, 410606, 126>>
        /\ compute_binomial_rems(ExampleN, 25) = {0}

C8_Witness ==
    /\ call # None
    /\ call.n > PRECOMPUTE_LIMIT
    /\ call.k = call.n - KSpan
    /\ Len(call.before) = CacheCapacity
    /\ <<call.n, KSpan>> \in LruKeys(call.before)
    /\ call.before[1].key # <<call.n, KSpan>>
    /\ IsChoose(call.ret, call.n, call.k)
    /\ cache[1].key = <<call.n, KSpan>>

\* the key a thread inside get works on
ThreadKey(t) == <<threads[t].n, reduced_k(threads[t].n, threads[t].k)>>

\* the thread is between lock() and the drop of the guard
HoldsGuard(t) ==
    \/ threads[t].pc \in {"lookup", "insert"}
    \/ (threads[t].pc = "return" /\ ~in_table(ThreadKey(t)[1], ThreadKey(t)[2]))

C9_Consistent ==
    /\ mutex \in 0..NumThreads
    /\ \A t \in Threads : HoldsGuard(t) <=> mutex = t
    /\ \A t \in Threads :
           threads[t].pc = "insert" => ThreadKey(t) \notin LruKeys(cache)
    /\ \A t \in Threads :
           threads[t].pc = "return" =>
               IsExact(threads[t].result, threads[t].n, threads[t].k)
    /\ \A i, j \in 1..Len(cache) : cache[i].key = cache[j].key => i = j
    /\ \A i \in 1..Len(cache) :
           /\ cache[i].key[2] = reduced_k(cache[i].key[1], cache[i].key[2])
           /\ IsExact(cache[i].val, cache[i].key[1], cache[i].key[2])
    /\ Len(cache) <= CacheCapacity

\* a step removes at most one key, and only the least recently used key of
\* a full cache, in the step that inserts another key
C9_EvictsOnlyLru ==
    \A key \in LruKeys(cache) \ LruKeys(cache') :
        /\ Len(cache) = CacheCapacity
        /\ key = cache[Len(cache)].key
        /\ Len(cache') = CacheCapacity
        /\ cache'[1].key \notin LruKeys(cache)

\* C9: in every interleaving of get calls by several threads, the threads
\* between lock() and the drop of the guard are exactly the holder of the
\* mutex, so lookup, compute and insert of a miss run with no other thread
\* in between (the key a thread is about to insert is still absent); every
\* call returns the exact C(n, k); the cache never holds a key twice nor a
\* value other than C(n, k) of its key; it never holds more entries than
\* its capacity; and a key leaves the cache only as the least recently used
\* entry of a full cache.
C9_ConcurrentCache == []C9_Consistent /\ [][C9_EvictsOnlyLru]_vars

C9_Witness ==
    \E t, u \in Threads :
        /\ t # u
        /\ threads[t].pc = "insert"
        /\ threads[u].pc = "lock"
        /\ ThreadKey(t) = ThreadKey(u)
        /\ threads[t].k # threads[u].k
        /\ Len(cache) = CacheCapacity
        /\ mutex = t

\* the sequence a degenerate composition has: all unset when ones = 0, all
\* set when zeros = 0
Uniform == Repeat(IF ones = 0 THEN 0 ELSE 1, ones + zeros)

\* C10: when ones = 0 or zeros = 0, whatever bits are submitted, the rank
\* accumulated by process_chunk stays 0 and finalize, stream_rank and
\* get_permutation_index return 0; and decoding rank 0 yields zeros unset
\* bits (ones = 0) or ones set bits (zeros = 0), from next_chunk once
\* drained, from stream_unrank and from get_nth_permutation.
C10_Degenerate ==
    (Codec /\ ranker # None /\ (ones = 0 \/ zeros = 0)) =>
        /\ ranker.current_index = Zero
        /\ (Finalized => rank = Zero)
        /\ stream_rank(cache, submitted, ones, zeros).ret = Zero
        /\ get_permutation_index(submitted, ones, zeros) = Zero
        /\ (phase = "decoding" =>
               /\ index = Zero
               /\ emitted = SubSeq(Uniform, 1, Len(emitted))
               /\ (Drained => emitted = Uniform))
        /\ stream_unrank(cache, Zero, ones, zeros).ret = Uniform
        /\ get_nth_permutation(Zero, ones, zeros) = Uniform

C10_Witness ==
    /\ Drained
    /\ Finalized
    /\ ones = 0
    /\ zeros >= 2
    /\ CountOf(submitted, 1) >= 2
    /\ rank = Zero
    /\ emitted = Repeat(0, zeros)

\* C11: in every cache state reached, get(n, k) and get(n, n - k) return
\* the same value and leave the same cache behind, for table and cache
\* arguments alike; and the call mirroring the last call returns what the
\* last call returned.
C11_Symmetry ==
    phase = "provider" =>
        /\ \A a \in CacheArgs \cup TableArgs :
               LET g == get(cache, a[1], a[2])
                   h == get(cache, a[1], a[1] - a[2])
               IN /\ g.ret = h.ret
                  /\ g.cache = h.cache
        /\ (call # None =>
               get(cache, call.n, call.n - call.k).ret = call.ret)

C11_Witness ==
    /\ call # None
    /\ call.n > PRECOMPUTE_LIMIT
    /\ call.k = call.n - KSpan
    /\ <<call.n, KSpan>> \notin LruKeys(call.before)
    /\ Len(call.before) = CacheCapacity
    /\ cache[1] = [key |-> <<call.n, KSpan>>, val |-> call.ret]
    /\ get(cache, call.n, KSpan).ret = call.ret

\* C12: get_permutation_index on the four bits [1,0,1,1] with ones = 3 and
\* zeros = 2 returns 4, as test_get_permutation_index asserts.
C12_FourBitsRankFour ==
    (Codec /\ submitted = <<1, 0, 1, 1>> /\ ones = 3 /\ zeros = 2) =>
        get_permutation_index(submitted, ones, zeros) = BigFromU64(4)

\* what the code returns there: C(4,3) + C(2,2) + C(1,1) = 6
C12_FourBitsRankSix ==
    (Codec /\ submitted = <<1, 0, 1, 1>> /\ ones = 3 /\ zeros = 2) =>
        /\ get_permutation_index(submitted, ones, zeros) = BigFromU64(6)
        /\ ranker.current_index = BigFromU64(6)

\* the decoder has no bit left to emit
Exhausted(u) == u.remaining_ones = 0 /\ u.remaining_zeros = 0

\* C13 as stated: whatever chunk_size next_chunk is given, the chunk it
\* returns is empty if and only if the decoder it found was exhausted.
C13_EmptyIffExhausted ==
    (phase = "decoding" /\ last # None) =>
        (last.chunk = <<>> <=> Exhausted(last.before))

\* C13 as amended: for chunk_size >= 1 the chunk is empty if and only if
\* the decoder found was exhausted (all ones + zeros bits emitted before);
\* for chunk_size = 0 the chunk is empty in every state; and stream_unrank,
\* which stops at the first empty chunk of next_chunk(64), has then yielded
\* ones + zeros bits.
C13_EmptyIffExhaustedOrZeroSize ==
    (phase = "decoding" /\ last # None) =>
        /\ (last.chunk_size >= 1 =>
               /\ (last.chunk = <<>> <=> Exhausted(last.before))
               /\ (Exhausted(last.before)
                      <=> Len(emitted) - Len(last.chunk) = ones + zeros))
        /\ (last.chunk_size = 0 => last.chunk = <<>>)
        /\ Len(stream_unrank(cache, index, ones, zeros).ret) = ones + zeros

C13_Witness ==
    /\ Drained
    /\ InRange
    /\ last # None
    /\ ~Exhausted(last.before)
    /\ last.chunk # <<>>
    /\ Len(last.chunk) < last.chunk_size
    /\ ones >= 1
    /\ zeros >= 1
    /\ stream_unrank(cache, index, ones, zeros).ret = emitted

\* the ranks of the composition, 0 .. C(ones+zeros, ones) - 1, as integers
Ranks(o, z) == 0..(Cardinality(CompositionSeqs(o, z)) - 1)

\* C14: for every index below C(ones+zeros, ones), encoding what the
\* decoder yields returns the index: for the batch pair, for stream_rank of
\* stream_unrank, and for a BitRanker fed the bits next_chunk has emitted
\* once the decoder is drained; every sequence of the composition is the
\* decoding of exactly one rank, by next_chunk and by get_nth_permutation.
C14_Bijection ==
    (phase = "decoding" /\ InRange) =>
        /\ get_permutation_index(get_nth_permutation(index, ones, zeros),
                                 ones, zeros) = index
        /\ stream_rank(cache, stream_unrank(cache, index, ones, zeros).ret,
                       ones, zeros).ret = index
        /\ (Drained =>
               /\ HasComposition(emitted, ones, zeros)
               /\ finalize(process_chunk(BitRanker_new(ones, zeros), cache,
                                         emitted).ranker) = index)
        /\ (last = None =>
               \A t \in CompositionSeqs(ones, zeros) :
                   /\ Cardinality({x \in Ranks(ones, zeros) :
                          get_nth_permutation(BigFromU64(x), ones, zeros) = t}) = 1
                   /\ Cardinality({x \in Ranks(ones, zeros) :
                          stream_unrank(cache, BigFromU64(x), ones, zeros).ret = t}) = 1)

C14_Witness ==
    /\ Drained
    /\ InRange
    /\ ones >= 2
    /\ zeros >= 2
    /\ index # Zero
    /\ last # None
    /\ last.chunk_size = MaxChunk
    /\ Len(last.chunk) = MaxChunk
    /\ get_permutation_index(emitted, ones, zeros) = index

(***************************************************************************)
(* The encoder session and the decoder on any index, in one specification. *)
(***************************************************************************)
InitCodec == Init \/ InitDec

SpecCodec == InitCodec /\ [][Next]_vars

CountsInRange(x) ==
    /\ 0 <= x.remaining_ones
    /\ x.remaining_ones <= ones
    /\ 0 <= x.remaining_zeros
    /\ x.remaining_zeros <= zeros

C15_CountsInRange ==
    /\ (ranker # None => CountsInRange(ranker))
    /\ (unranker # None => CountsInRange(unranker))

\* the bits of a step from counts x to counts y are the first
\* Len(bits) bits, or fewer: those up to the stop
CountsStep(x, y, bits) ==
    LET done == (x.remaining_ones + x.remaining_zeros)
                    - (y.remaining_ones + y.remaining_zeros)
        processed == SubSeq(bits, 1, done)
    IN /\ y.remaining_ones <= x.remaining_ones
       /\ y.remaining_zeros <= x.remaining_zeros
       /\ done <= Len(bits)
       /\ x.remaining_ones - y.remaining_ones = CountOf(processed, 1)
       /\ x.remaining_zeros - y.remaining_zeros = CountOf(processed, 0)
       /\ (done < Len(bits) => y.remaining_ones = 0 \/ y.remaining_zeros = 0)

C15_CountsStep ==
    /\ (phase = "encoding" /\ phase' = "encoding") =>
           CountsStep(ranker, ranker',
                      SubSeq(submitted', Len(submitted) + 1, Len(submitted')))
    /\ (phase = "decoding" /\ phase' = "decoding") =>
           /\ CountsStep(unranker, unranker', last'.chunk)
           /\ Len(last'.chunk)
                  = (unranker.remaining_ones + unranker.remaining_zeros)
                        - (unranker'.remaining_ones + unranker'.remaining_zeros)

\* C15: in every state of the encoder and of the decoder, after any
\* process_chunk and next_chunk calls (chunks with more set or unset bits
\* than declared, and any index, included), 0 <= remaining_ones <= ones and
\* 0 <= remaining_zeros <= zeros; no call increases a count; every bit
\* processed before the stop, and every bit emitted, takes exactly one off
\* exactly one count (a set bit off remaining_ones, an unset bit off
\* remaining_zeros); bits after the stop change nothing and no count goes
\* below zero.
C15_RemainingCounts == []C15_CountsInRange /\ [][C15_CountsStep]_vars

C15_Witness ==
    /\ phase = "encoding"
    /\ CountOf(submitted, 1) > ones
    /\ Len(submitted) > ones + zeros
    /\ ones >= 2
    /\ zeros >= 1
    /\ ranker.remaining_ones = 0
    /\ ranker.remaining_zeros > 0
    /\ ranker.current_index # Zero

\* the encoder has a count at zero
Stopped(r) == r.remaining_ones = 0 \/ r.remaining_zeros = 0

C16_Step ==
    /\ (phase = "encoding" /\ Stopped(ranker)) =>
           /\ ranker' = ranker
           /\ cache' = cache
           /\ (phase' = "finalized" => rank' = ranker.current_index)
    /\ (phase = "encoding" /\ phase' = "encoding" /\ Stopped(ranker')) =>
           \A extra \in BitSeqs(MaxChunk) :
               process_chunk(ranker, cache,
                             SubSeq(submitted', Len(submitted) + 1,
                                    Len(submitted')) \o extra).ranker = ranker'

\* C16: once remaining_ones = 0 or remaining_zeros = 0, a process_chunk
\* call, whatever bits it carries, leaves the ranker (both counts and the
\* accumulated index) and the cache as they were, and finalize returns the
\* index accumulated at the stop; and the bits that follow the stop inside
\* the chunk that reached it change nothing either.
C16_EarlyStopNoOp == [][C16_Step]_vars

C16_Witness ==
    /\ phase = "finalized"
    /\ ranker.remaining_zeros = 0
    /\ ranker.remaining_ones >= 1
    /\ Len(submitted) >= ones + zeros - ranker.remaining_ones + 2
    /\ submitted[Len(submitted)] = 1
    /\ rank # Zero
    /\ rank = ranker.current_index

(***************************************************************************)
(* A call of next_chunk with chunk_size >= 1.  A behaviour in which the    *)
(* caller keeps calling satisfies []<><<NextChunkNonZero>>_vars; as such a *)
(* call is possible in every decoding state, this is what weak fairness of *)
(* the call amounts to.  Calls with chunk_size = 0 may come in between.    *)
(***************************************************************************)
NextChunkNonZero == \E chunk_size \in 1..(MaxChunk + 1) : NextChunk(chunk_size)

KeepsCalling == []<><<NextChunkNonZero>>_vars

C18_Step ==
    /\ (~Exhausted(unranker) /\ last'.chunk_size >= 1) =>
           /\ Len(last'.chunk) >= 1
           /\ unranker'.remaining_ones + unranker'.remaining_zeros
                  < unranker.remaining_ones + unranker.remaining_zeros
           /\ unranker'.remaining_ones >= 0
           /\ unranker'.remaining_zeros >= 0
    /\ (Exhausted(unranker) => Exhausted(unranker'))

\* C18: from any index and composition, with a caller that keeps calling
\* next_chunk with chunk_size >= 1, the decoder is eventually exhausted and
\* stays so for ever; every such call on a decoder that is not exhausted
\* emits at least one bit and lowers remaining_ones + remaining_zeros,
\* which starts at ones + zeros and never goes below 0, so at most ones +
\* zeros such calls come before exhaustion; no call leaves the exhausted
\* state; and the iterator of stream_unrank ends, having yielded ones +
\* zeros bits.
C18_Termination ==
    /\ KeepsCalling => <>[](phase = "decoding" /\ Exhausted(unranker))
    /\ [][C18_Step]_vars
    /\ [](unranker.remaining_ones + unranker.remaining_zeros
              = ones + zeros - Len(emitted))
    /\ [](Len(stream_unrank(cache, index, ones, zeros).ret) = ones + zeros)

C18_Witness ==
    /\ Drained
    /\ InRange
    /\ ones = MaxOnes
    /\ zeros = MaxZeros
    /\ last # None
    /\ last.chunk_size = 1
    /\ ~Exhausted(last.before)
    /\ Len(emitted) = ones + zeros

\* C20: whatever index the decoder is given, in range or not, the drained
\* output of BitUnranker has exactly ones set bits and zeros unset bits,
\* and so has the output of get_nth_permutation; while it runs the decoder
\* has emitted ones - remaining_ones set bits and zeros - remaining_zeros
\* unset bits; and when the index is a rank of the composition,
\* remaining_index is 0 once the decoder is exhausted.
C20_CompositionPreserved ==
    phase = "decoding" =>
        /\ CountOf(emitted, 1) = ones - unranker.remaining_ones
        /\ CountOf(emitted, 0) = zeros - unranker.remaining_zeros
        /\ (Drained => HasComposition(emitted, ones, zeros))
        /\ HasComposition(get_nth_permutation(index, ones, zeros), ones, zeros)
        /\ HasComposition(stream_unrank(cache, index, ones, zeros).ret,
                          ones, zeros)
        /\ ((Drained /\ InRange) => unranker.remaining_index = Zero)

C20_Witness ==
    /\ Drained
    /\ ~InRange
    /\ ones >= 2
    /\ zeros >= 2
    /\ Len(emitted) = ones + zeros
    /\ unranker.remaining_index # Zero
    /\ last.chunk_size = MaxChunk
    /\ ~Exhausted(last.before)

\* a get call has ended, by returning or by panicking
CallEnded == phase = "provider" /\ call.pc \in {"returned", "panicked"}

\* C17: a call get(n, k) with k > n ends either in a panic or by returning
\* zero, never by returning a nonzero value: in a build that checks
\* overflow it panics at n - k; in a build that wraps it panics at the
\* table's None entry, or compute_binomial meets the factor 0 and returns
\* zero; the zero it leaves in the cache sits under a key with k > n; and
\* a later call with k <= n still returns C(n, k) and never panics.  The
\* batch helper binomial_coefficient returns zero for b > a.
C17_OutOfDomain ==
    /\ (CallEnded /\ call.k > call.n) =>
           /\ call.pc = "panicked" \/ call.ret = Zero
           /\ overflow_checks => call.pc = "panicked"
           /\ (~overflow_checks /\ in_table(call.n, call.kr)) => call.pc = "panicked"
           /\ binomial_coefficient(call.n, call.k) = Zero
    /\ (CallEnded /\ call.k <= call.n) =>
           /\ call.pc = "returned"
           /\ IsChoose(call.ret, call.n, call.k)
    /\ phase = "provider" =>
           /\ mutex # Poisoned
           /\ \A j \in 1..Len(cache) :
                  cache[j].val = Zero <=> cache[j].key[2] > cache[j].key[1]

C17_Witness ==
    /\ CallEnded
    /\ call.k > call.n
    /\ call.pc = "returned"
    /\ call.ret = Zero
    /\ call.i > PRECOMPUTE_LIMIT
    /\ ~overflow_checks
    /\ \E j \in 1..Len(cache) : cache[j].key = <<call.n, call.kr>>
    /\ \E j \in 1..Len(cache) : cache[j].key[2] <= cache[j].key[1]

\* a get call made by the last operation with arguments as the provider
\* requires them
CallInDomain(x) ==
    /\ x.remaining_ones >= 1
    /\ x.remaining_zeros >= 1
    /\ x.n = x.remaining_ones + x.remaining_zeros - 1
    /\ x.k = x.remaining_ones
    /\ 1 <= x.k
    /\ x.k <= x.n
    /\ ~x.wrapped

\* C19 as stated: for every composition the counters can hold, every call
\* the encoder and the decoder make to get has remaining_ones >= 1,
\* remaining_zeros >= 1, n = remaining_ones + remaining_zeros - 1,
\* k = remaining_ones, 1 <= k <= n, and neither the computation of n nor
\* n - k in get leaves the word; and no operation panics.
C19_CallsInDomain ==
    /\ \A j \in 1..Len(call) : CallInDomain(call[j])
    /\ phase # "panicked"

\* the same restricted to compositions with ones + zeros below the word size
C19_CallsInDomainBelowWord ==
    ones + zeros < WORD => C19_CallsInDomain

C19_Overflowed ==
    /\ ones + zeros >= WORD
    /\ ~overflow_checks
    /\ phase = "panicked"
    /\ Len(call) = 1
    /\ call[1].k > call[1].n

====
